---- MODULE Spec2Model ----
(***************************************************************************)
(* Model of the vector knowledge store of BrainVault                       *)
(* (src/utils/database.py, class VectorDB) for one profile: the in-memory  *)
(* handle (faiss index + metadata list), the two snapshot files of the     *)
(* profile directory, and the operations __init__, save, add and           *)
(* delete_by_topic, including disk-write failures and a process that stops *)
(* before, between or after the two writes of save.                        *)
(*                                                                         *)
(* Granularity: each of the two writes of save is atomic (a write either   *)
(* replaces the file or leaves it as it was).  Sequences are 1-based, so   *)
(* the Python position i is the TLA+ position i + 1.                       *)
(***************************************************************************)
EXTENDS Integers, Sequences, FiniteSets, TLC

\* ---------------------------------------------------------------- bounds
\* records a store holds at most
MaxRecords == 3
\* write failures and process stops injected in one behaviour at most
MaxFaults == 1
\* calls the two sessions that run side by side make at most, together
MaxCalls == 3
\* clicks on buttons that issue a store operation, over all browser sessions
MaxClicks == 2

Topics == {"A", "B"}
Contents == {"c1", "c2"}
\* the (topic, content) pairs add is called with: one topic with two
\* contents, one content under two topics
Entries == {<<"A", "c1">>, <<"A", "c2">>, <<"B", "c2">>}
Sources == {"manual"}
\* readings of the wall clock: the first second and a later one
Dates == {"t1", "t2"}
\* the profiles of the two sessions that run side by side
Profiles == {"default", "work"}
\* the (topic, content) pairs the two sessions add
ProfileEntries == {<<"A", "c1">>, <<"B", "c2">>}
\* the query the two sessions search for
ProfileQueries == {"q"}
\* the browser sessions of the application
Sessions == {"s1", "s2"}

\* ------------------------------------------------------------- constants
\* dimension of the simplified embedding model (faiss.IndexFlatL2(64))
Dim == 64
\* answer_question: db.search(question, top_k=3)
AnswerTopK == 3
\* answer_question: len(full_context.split()) > 500
MaxContextWords == 500

VARIABLES
    handle,         \* "none" (no VectorDB object) | "live"
    index,          \* self.index      : [d, xb]  (faiss IndexFlatL2)
    metadata,       \* self.metadata   : sequence of records
    index_file,     \* data/<profile>/faiss_index.bin
    metadata_file,  \* data/<profile>/metadata.json
    last,           \* the last call: its arguments, result and outcome
    faults,         \* number of faults injected so far
    clock           \* the wall clock time.strftime reads

\* two sessions (threads of one process), one per profile, stepping through
\* their calls statement by statement
VARIABLES
    sessions,       \* profile -> the session's VectorDB object and its
                    \*            position in the running call
    disk,           \* directory -> the two snapshot files in it
    rng,            \* numpy's global generator: last seed, draws since
    expected,       \* profile -> the store its calls give when run alone
    calls,          \* number of add and delete_by_topic calls begun so far
    before          \* profile -> index and metadata of the handle when the
                    \*            running delete_by_topic was called

\* browser sessions of the application, each running app.py from the top
\* at every rerun
VARIABLES
    app,            \* session -> st.session_state and the widgets' values
    dirs,           \* the profile directories under data/
    committed       \* profile -> the entries added through any handle and
                    \*            not deleted since

\* a caller that keeps the list a read returned
VARIABLES
    result          \* the objects of the returned list

storevars ==
    <<handle, index, metadata, index_file, metadata_file, last, faults, clock>>

profvars == <<sessions, disk, rng, expected, calls, before>>

appvars == <<app, dirs, committed>>

readvars == <<result>>

vars == <<storevars, profvars, appvars, readvars>>

\* ------------------------------------------------------------ embeddings
\* generate_embeddings: md5(text) % 10^8 seeds numpy's generator; the vector
\* is a function of the text alone.  A vector is represented by its
\* dimension d and the seed x that determines its 64 components.
Seed(text) ==
    CASE text = "c1" -> 11
      [] text = "c2" -> 22
      [] OTHER -> 99

generate_embeddings(text) == [d |-> Dim, x |-> Seed(text)]

\* the optional embeddings argument of add: None, or a caller's vector
None == [given |-> FALSE, d |-> 0, x |-> 0]
Supplied(d, x) == [given |-> TRUE, d |-> d, x |-> x]
\* a caller's vector: right dimension but not the embedding of every content,
\* or a wrong dimension
EmbeddingArgs ==
    {None, Supplied(Dim, Seed("c2")), Supplied(Dim \div 2, Seed("c2"))}

\* ----------------------------------------------------------- faiss index
\* faiss.IndexFlatL2(d): an empty flat index of dimension d
IndexFlatL2(d) == [d |-> d, xb |-> <<>>]

ntotal(ix) == Len(ix.xb)

\* an add that takes a row of any dimension
CanIndexAdd_Any(ix, v) == TRUE

\* index.add(x) for one row x: faiss asserts the row's dimension
CanIndexAdd(ix, v) == v.d = ix.d

IndexAdd(ix, v) == [ix EXCEPT !.xb = Append(ix.xb, v.x)]

\* ----------------------------------------------------------------- files
NoIndexFile == [exists |-> FALSE, d |-> 0, ntotal |-> 0, codes |-> <<>>]
NoMetadataFile == [exists |-> FALSE, items |-> <<>>]

\* faiss.write_index / faiss.read_index
write_index(ix) ==
    [exists |-> TRUE, d |-> ix.d, ntotal |-> Len(ix.xb), codes |-> ix.xb]

read_index(f) == [d |-> f.d, xb |-> SubSeq(f.codes, 1, f.ntotal)]

\* json.dump / json.load of the list of record dicts: a JSON object is
\* written as its values in key order id, topic, content, source, date
json_dump_item(r) == <<r.id, r.topic, r.content, r.source, r.date>>

json_load_item(t) ==
    [id |-> t[1], topic |-> t[2], content |-> t[3], source |-> t[4],
     date |-> t[5]]

json_dump(meta) ==
    [exists |-> TRUE,
     items |-> [i \in 1..Len(meta) |-> json_dump_item(meta[i])]]

json_load(f) == [i \in 1..Len(f.items) |-> json_load_item(f.items[i])]

\* ------------------------------------------------------------- __init__
\* VectorDB.__init__: load both snapshots when both exist, else start empty
LoadFrom(ifile, mfile) ==
    IF ifile.exists /\ mfile.exists
    THEN [index |-> read_index(ifile), metadata |-> json_load(mfile)]
    ELSE [index |-> IndexFlatL2(Dim), metadata |-> <<>>]

\* ----------------------------------------------------------------- save
\* What can happen to a call of save: it completes, one of its two writes
\* raises, or the process stops before, between or after the two writes.
Faults ==
    {"none", "fail_index", "fail_meta",
     "stop_before", "stop_between", "stop_after"}

\* number of writes of save that took effect under a fault
WritesDone(fault) ==
    CASE fault \in {"fail_index", "stop_before"} -> 0
      [] fault \in {"fail_meta", "stop_between"} -> 1
      [] OTHER -> 2

Outcome(fault) ==
    CASE fault = "none" -> "returned"
      [] fault \in {"fail_index", "fail_meta"} -> "raised"
      [] OTHER -> "stopped"

\* save that forgets the metadata snapshot
save_IndexOnly(ix, meta, ifile, mfile, fault) ==
    [index_file |->
        IF WritesDone(fault) >= 1 THEN write_index(ix) ELSE ifile,
     metadata_file |-> mfile]

\* save that writes the metadata snapshot first
save_MetadataFirst(ix, meta, ifile, mfile, fault) ==
    [index_file |->
        IF WritesDone(fault) >= 2 THEN write_index(ix) ELSE ifile,
     metadata_file |->
        IF WritesDone(fault) >= 1 THEN json_dump(meta) ELSE mfile]

\* VectorDB.save: write the index snapshot, then the metadata snapshot
save(ix, meta, ifile, mfile, fault) ==
    [index_file |->
        IF WritesDone(fault) >= 1 THEN write_index(ix) ELSE ifile,
     metadata_file |->
        IF WritesDone(fault) >= 2 THEN json_dump(meta) ELSE mfile]

\* ------------------------------------------------------------------ add
\* the vector add inserts: the argument when given, else the embedding of
\* the content
AddVector(content, embeddings) ==
    IF embeddings.given
    THEN [d |-> embeddings.d, x |-> embeddings.x]
    ELSE generate_embeddings(content)

NewRecord(idx, topic, content, source, date) ==
    [id |-> idx, topic |-> topic, content |-> content, source |-> source,
     date |-> date]

\* the in-memory part of add: index.add, idx = len(metadata), append
AddMem(ix, meta, topic, content, source, date, embeddings) ==
    [index |-> IndexAdd(ix, AddVector(content, embeddings)),
     metadata |->
        Append(meta, NewRecord(Len(meta), topic, content, source, date)),
     idx |-> Len(meta)]

\* ------------------------------------------------------ delete_by_topic
\* a filter that keeps the topic instead of dropping it
keep_items_Same(meta, topic) ==
    SelectSeq(meta, LAMBDA item : item.topic = topic)

\* a filter that drops only the first record of the topic
keep_items_FirstOnly(meta, topic) ==
    IF \E i \in 1..Len(meta) : meta[i].topic = topic
    THEN LET first == CHOOSE i \in 1..Len(meta) :
                        /\ meta[i].topic = topic
                        /\ \A j \in 1..(i - 1) : meta[j].topic # topic
         IN  SubSeq(meta, 1, first - 1) \o SubSeq(meta, first + 1, Len(meta))
    ELSE meta

keep_items(meta, topic) == SelectSeq(meta, LAMBDA item : item.topic # topic)

\* a rebuild that keeps the old ids
Rebuild_KeepIds(keep) ==
    [index |->
        [d |-> Dim,
         xb |-> [i \in 1..Len(keep) |->
                    generate_embeddings(keep[i].content).x]],
     metadata |-> keep]

\* a rebuild that stamps the kept items with the time of the rebuild
Rebuild_NewDate(keep) ==
    [index |->
        [d |-> Dim,
         xb |-> [i \in 1..Len(keep) |->
                    generate_embeddings(keep[i].content).x]],
     metadata |-> [i \in 1..Len(keep) |->
                    [keep[i] EXCEPT !.id = i - 1, !.date = "t2"]]]

\* the rebuild loop: a fresh index with the embedding of every kept item's
\* content, and the kept items renumbered from 0
Rebuild(keep) ==
    [index |->
        [d |-> Dim,
         xb |-> [i \in 1..Len(keep) |->
                    generate_embeddings(keep[i].content).x]],
     metadata |-> [i \in 1..Len(keep) |-> [keep[i] EXCEPT !.id = i - 1]]]

\* ---------------------------------------------------------------- search
\* queries search is called with: the text of a stored content and another
Queries == {"c1", "q"}
\* values of top_k (the default is 5)
TopKs == {1, 2, 5}
\* topics get_by_topic is asked for: stored ones, another case, a longer one
QueryTopics == {"A", "B", "a", "AB"}

Min(a, b) == IF a <= b THEN a ELSE b

\* IndexFlatL2 metric: squared Euclidean distance (on the representatives)
Distance(x, y) == (x - y) * (x - y)

\* the distance faiss reports for a missing neighbour (label -1): FLT_MAX
FltMax == 1000000

\* position i is nearer to the query than position j; equal distances are
\* taken in position order
Nearer(xb, qx, i, j) ==
    \/ Distance(qx, xb[i]) < Distance(qx, xb[j])
    \/ (Distance(qx, xb[i]) = Distance(qx, xb[j]) /\ i < j)

RECURSIVE KNearest(_, _, _, _)
\* the k nearest positions among cands, nearest first
KNearest(xb, qx, cands, k) ==
    IF k <= 0 \/ cands = {}
    THEN <<>>
    ELSE LET best == CHOOSE i \in cands :
                        \A j \in cands \ {i} : Nearer(xb, qx, i, j)
         IN  <<best>> \o KNearest(xb, qx, cands \ {best}, k - 1)

\* index.search(query_vector, k): k rows of (distance, label); labels are
\* 0-based positions, rows beyond ntotal are (FLT_MAX, -1)
faiss_search(ix, qx, k) ==
    LET near == KNearest(ix.xb, qx, 1..Len(ix.xb), k) IN
    [indices |->
        [i \in 1..k |-> IF i <= Len(near) THEN near[i] - 1 ELSE -1],
     distances |->
        [i \in 1..k |-> IF i <= Len(near)
                        THEN Distance(qx, ix.xb[near[i]]) ELSE FltMax]]

RECURSIVE SeqMax(_)
SeqMax(s) ==
    IF Len(s) = 0 THEN 0
    ELSE LET m == SeqMax(Tail(s)) IN IF Head(s) >= m THEN Head(s) ELSE m

\* a score is the fraction num / den
Frac(num, den) == [num |-> num, den |-> den]

\* similarity = 1 - distance / max_distance if max_distance > 0 else 0, in
\* floating point: against FLT_MAX the quotient of a real distance vanishes
Similarity_NotInverted(d, max_distance) ==
    IF max_distance > 0 THEN Frac(d, max_distance) ELSE Frac(0, 1)

Similarity(d, max_distance) ==
    IF max_distance > 0
    THEN IF max_distance = FltMax /\ d < FltMax
         THEN Frac(1, 1)
         ELSE Frac(max_distance - d, max_distance)
    ELSE Frac(0, 1)

\* result = self.metadata[idx].copy(); result["score"] = similarity
ScoredRecord(item, score) ==
    [id |-> item.id, topic |-> item.topic, content |-> item.content,
     source |-> item.source, date |-> item.date, score |-> score]

\* the result loop of search over the rows whose label is at least lowest
\* and below len(metadata)
SearchResults(ix, meta, query, top_k, lowest) ==
    IF Len(meta) = 0
    THEN <<>>
    ELSE LET qx == generate_embeddings(query).x
             k == Min(top_k, Len(meta))
             found == faiss_search(ix, qx, k)
             max_distance == IF k > 0 THEN SeqMax(found.distances) ELSE 1
             valid == SelectSeq([i \in 1..k |-> i],
                        LAMBDA i : /\ found.indices[i] >= lowest
                                   /\ found.indices[i] < Len(meta))
         IN  [j \in 1..Len(valid) |->
                ScoredRecord(meta[found.indices[valid[j]] + 1],
                    Similarity(found.distances[valid[j]], max_distance))]

\* a validity test that loses position 0
search_PositiveLabels(ix, meta, query, top_k) ==
    SearchResults(ix, meta, query, top_k, 1)

\* VectorDB.search(query, top_k)
search(ix, meta, query, top_k) == SearchResults(ix, meta, query, top_k, 0)

\* a search without the early return of the empty store
SearchRaises_NoEarlyReturn(meta, top_k) == Min(top_k, Len(meta)) <= 0

\* search raises: faiss asserts k > 0
SearchRaises(meta, top_k) == Len(meta) # 0 /\ Min(top_k, Len(meta)) <= 0

\* ---------------------------------------------- get_all_topics, get_by_topic
RECURSIVE Dedup(_)
\* the distinct elements of a sequence (set(...) made a list again; the
\* order of the list is not specified, first occurrences are used here)
Dedup(s) ==
    IF Len(s) = 0 THEN <<>>
    ELSE LET front == Dedup(SubSeq(s, 1, Len(s) - 1))
             x == s[Len(s)]
         IN  IF \E i \in 1..Len(front) : front[i] = x
             THEN front ELSE Append(front, x)

\* the topics without set(...)
get_all_topics_NoSet(meta) == [i \in 1..Len(meta) |-> meta[i].topic]

\* VectorDB.get_all_topics()
get_all_topics(meta) == Dedup([i \in 1..Len(meta) |-> meta[i].topic])

\* str.lower() on the topics of the model
Lower(t) ==
    CASE t = "A" -> "a"
      [] t = "B" -> "b"
      [] t = "AB" -> "ab"
      [] OTHER -> t

\* a comparison that ignores case
get_by_topic_IgnoreCase(meta, topic) ==
    SelectSeq(meta, LAMBDA item : Lower(item.topic) = Lower(topic))

\* VectorDB.get_by_topic(topic)
get_by_topic(meta, topic) == SelectSeq(meta, LAMBDA item : item.topic = topic)

\* search_vector_db(db, query, top_k, exact_match)
search_vector_db(ix, meta, query, top_k, exact_match) ==
    IF exact_match
    THEN [raised |-> FALSE, exact |-> get_by_topic(meta, query),
          scored |-> <<>>]
    ELSE [raised |-> SearchRaises(meta, top_k), exact |-> <<>>,
          scored |-> IF SearchRaises(meta, top_k) THEN <<>>
                     ELSE search(ix, meta, query, top_k)]

\* ------------------------------------------------------- answer_question
\* len(content.split()): the number of words of a stored content
WordCount(content) ==
    CASE content = "c1" -> 200
      [] content = "c2" -> 300
      [] OTHER -> 1

RECURSIVE SumWords(_)
\* len(" ".join(contexts).split())
SumWords(contexts) ==
    IF Len(contexts) = 0 THEN 0
    ELSE WordCount(Head(contexts)) + SumWords(Tail(contexts))

\* the answer for a store that gives no search result
NotEnoughInformation ==
    [answer |-> "not_enough_information", context |-> <<>>, source |-> "",
     topic |-> ""]

\* the context as the list of the contents joined by " ": all of them, or
\* the first alone when the joined text has more than 500 words
FullContext(contexts, limit) ==
    IF SumWords(contexts) > limit THEN <<contexts[1]>> ELSE contexts

\* answer_question(db, question); the answer is a sentence of the context
answer_question(ix, meta, question) ==
    LET search_results == search(ix, meta, question, AnswerTopK) IN
    IF Len(search_results) = 0
    THEN NotEnoughInformation
    ELSE [answer |-> "sentence_of_context",
          context |-> FullContext(
                [i \in 1..Len(search_results) |-> search_results[i].content],
                MaxContextWords),
          source |-> search_results[1].source,
          topic |-> search_results[1].topic]

\* ------------------------------------------------------------- the calls
NoCall ==
    [op |-> "none", topic |-> "", content |-> "", source |-> "",
     embeddings |-> None, date |-> "", fault |-> "none",
     outcome |-> "returned", ret_id |-> -1, ret_ok |-> FALSE]

EmptyIndex == IndexFlatL2(Dim)

\* ------------------------------------------------------------- profiles
\* a directory shared by every profile
DataDir_Shared(profile) == <<"data", "default">>

\* self.data_dir = Path(f"data/{profile}")
DataDir(profile) == <<"data", profile>>

Dirs == {DataDir(profile) : profile \in Profiles}

NoFiles == [index_file |-> NoIndexFile, metadata_file |-> NoMetadataFile]

\* numpy's generator after np.random.seed(seed) and pos draws of randn(64)
Generator(seed, pos) == [seed |-> seed, pos |-> pos]

\* the vector randn(64) returns in that state; the first draw after
\* seed(s) is the vector represented by s
RandnVector(g) == g.seed + 1000 * g.pos

\* a session without a VectorDB object
NoSession ==
    [handle |-> "none", data_dir |-> <<>>, index |-> EmptyIndex,
     metadata |-> <<>>, pc |-> "idle", topic |-> "", content |-> "",
     source |-> "", text |-> "", vec |-> 0, keep |-> <<>>, i |-> 0,
     new_xb |-> <<>>, new_metadata |-> <<>>, ret_ok |-> FALSE]

\* the locals of a call that has returned
Returning(s) ==
    [s EXCEPT !.pc = "idle", !.topic = "", !.content = "", !.source = "",
              !.text = "", !.vec = 0, !.keep = <<>>, !.i = 0,
              !.new_xb = <<>>, !.new_metadata = <<>>]

\* the store and files a profile has when its calls run one after another
ExpectedEmpty ==
    [index |-> EmptyIndex, metadata |-> <<>>, index_file |-> NoIndexFile,
     metadata_file |-> NoMetadataFile]

ExpectedAfter(e, st) ==
    [index |-> st.index, metadata |-> st.metadata,
     index_file |-> write_index(st.index),
     metadata_file |-> json_dump(st.metadata)]

\* no delete_by_topic is running on the handle
NotRunning == [running |-> FALSE, index |-> EmptyIndex, metadata |-> <<>>]

\* no button was clicked for the next run of the script
NoClick == [op |-> "", a |-> "", b |-> ""]

\* no store operation was issued by the session yet
NoneIssued == [issued |-> FALSE, profile_arg |-> "", db_profile |-> ""]

\* a browser session that has not run the script yet
NoAppSession ==
    [started |-> FALSE, pc |-> "idle", user_profile |-> "",
     selected_profile |-> "default", options |-> {},
     db |-> [profile |-> "", index |-> EmptyIndex, metadata |-> <<>>],
     click |-> NoClick, created |-> "", issued |-> NoneIssued]

\* the caller holds no returned list
NoResult == [step |-> "none", items |-> <<>>]

Init ==
    /\ sessions = [profile \in Profiles |-> NoSession]
    /\ disk = [dir \in Dirs |-> NoFiles]
    /\ rng = Generator(0, 0)
    /\ expected = [profile \in Profiles |-> ExpectedEmpty]
    /\ calls = 0
    /\ before = [profile \in Profiles |-> NotRunning]
    /\ app = [session \in Sessions |-> NoAppSession]
    /\ dirs = {}
    /\ committed = [profile \in Profiles |-> {}]
    /\ result = NoResult
    /\ handle = "none"
    /\ index = EmptyIndex
    /\ metadata = <<>>
    /\ index_file = NoIndexFile
    /\ metadata_file = NoMetadataFile
    /\ last = NoCall
    /\ faults = 0
    /\ clock = "t1"

\* create_or_load_vector_db / VectorDB.__init__ in a new session
Load ==
    /\ handle = "none"
    /\ LET st == LoadFrom(index_file, metadata_file) IN
        /\ index' = st.index
        /\ metadata' = st.metadata
    /\ handle' = "live"
    /\ last' = [NoCall EXCEPT !.op = "init"]
    /\ UNCHANGED <<index_file, metadata_file, faults, clock>>
    /\ UNCHANGED <<profvars, appvars, readvars>>

\* the session ends between two calls; the object is gone
Exit ==
    /\ handle = "live"
    /\ handle' = "none"
    /\ index' = EmptyIndex
    /\ metadata' = <<>>
    /\ last' = [NoCall EXCEPT !.op = "exit"]
    /\ UNCHANGED <<index_file, metadata_file, faults, clock>>
    /\ UNCHANGED <<profvars, appvars, readvars>>

\* the effect of a call that got as far as save, under a fault
Commit(st, fault) ==
    LET files == save(st.index, st.metadata, index_file, metadata_file, fault)
    IN  /\ fault # "none" => faults < MaxFaults
        /\ faults' = IF fault = "none" THEN faults ELSE faults + 1
        /\ index_file' = files.index_file
        /\ metadata_file' = files.metadata_file
        /\ IF Outcome(fault) = "stopped"
           THEN /\ handle' = "none"
                /\ index' = EmptyIndex
                /\ metadata' = <<>>
           ELSE /\ handle' = handle
                /\ index' = st.index
                /\ metadata' = st.metadata

\* VectorDB.add(topic, content, source, embeddings)
Add(topic, content, source, embeddings, fault) ==
    /\ handle = "live"
    /\ UNCHANGED <<profvars, appvars, readvars>>
    /\ clock' = "t2"
    /\ Len(metadata) < MaxRecords
    /\ ntotal(index) <= MaxRecords
    /\ LET call == [NoCall EXCEPT !.op = "add", !.topic = topic,
                        !.content = content, !.source = source,
                        !.embeddings = embeddings, !.date = clock]
       IN
       IF ~CanIndexAdd(index, AddVector(content, embeddings))
       THEN \* index.add raises before anything is changed
            /\ fault = "none"
            /\ last' = [call EXCEPT !.outcome = "raised"]
            /\ UNCHANGED <<handle, index, metadata, index_file, metadata_file,
                           faults>>
       ELSE LET st == AddMem(index, metadata, topic, content, source, clock,
                             embeddings)
            IN  /\ Commit(st, fault)
                /\ last' = [call EXCEPT !.fault = fault,
                                !.outcome = Outcome(fault),
                                !.ret_id = IF fault = "none" THEN st.idx
                                           ELSE -1]

\* delete_by_topic without the early return for an absent topic
DeleteByTopic_NoEarlyReturn(topic, fault) ==
    /\ handle = "live"
    /\ UNCHANGED <<clock, profvars, appvars, readvars>>
    /\ Commit(Rebuild(keep_items(metadata, topic)), fault)
    /\ last' = [NoCall EXCEPT !.op = "delete", !.topic = topic,
                    !.fault = fault, !.outcome = Outcome(fault),
                    !.ret_ok = (fault = "none")]

\* VectorDB.delete_by_topic(topic)
DeleteByTopic(topic, fault) ==
    /\ handle = "live"
    /\ UNCHANGED <<clock, profvars, appvars, readvars>>
    /\ LET call == [NoCall EXCEPT !.op = "delete", !.topic = topic]
           keep == keep_items(metadata, topic)
       IN
       IF Len(keep) = Len(metadata)
       THEN \* nothing to remove: return False
            /\ fault = "none"
            /\ last' = [call EXCEPT !.ret_ok = FALSE]
            /\ UNCHANGED <<handle, index, metadata, index_file, metadata_file,
                           faults>>
       ELSE /\ Commit(Rebuild(keep), fault)
            /\ last' = [call EXCEPT !.fault = fault,
                            !.outcome = Outcome(fault),
                            !.ret_ok = (fault = "none")]

Next ==
    \/ Load
    \/ Exit
    \/ \E entry \in Entries, source \in Sources,
          embeddings \in EmbeddingArgs, fault \in Faults :
            Add(entry[1], entry[2], source, embeddings, fault)
    \/ \E topic \in Topics, fault \in Faults : DeleteByTopic(topic, fault)

Spec == Init /\ [][Next]_vars

\* ------------------------------------------- two sessions, step by step
\* create_or_load_vector_db(profile) in the session of the profile
OpenP(p) ==
    /\ sessions[p].handle = "none"
    /\ LET dir == DataDir(p)
           st == LoadFrom(disk[dir].index_file, disk[dir].metadata_file)
       IN  sessions' = [sessions EXCEPT ![p] =
                [@ EXCEPT !.handle = "live", !.data_dir = dir,
                          !.index = st.index, !.metadata = st.metadata]]
    /\ UNCHANGED <<disk, rng, expected, calls, before, storevars, appvars,
                 readvars>>

\* add_to_vector_db(db, topic, content, source) is called: embeddings is
\* None, so generate_embeddings(content) comes first
BeginAdd(p, topic, content, source) ==
    /\ sessions[p].handle = "live"
    /\ sessions[p].pc = "idle"
    /\ calls < MaxCalls
    /\ calls' = calls + 1
    /\ sessions' = [sessions EXCEPT ![p] =
            [@ EXCEPT !.pc = "add_seed", !.topic = topic,
                      !.content = content, !.source = source,
                      !.text = content]]
    /\ expected' = [expected EXCEPT ![p] =
            ExpectedAfter(@, AddMem(@.index, @.metadata, topic, content,
                                    source, clock, None))]
    /\ UNCHANGED <<disk, rng, before, storevars, appvars,
                 readvars>>

\* generate_embeddings: np.random.seed(hash_val)
SeedStep(p) ==
    /\ sessions[p].pc \in {"add_seed", "del_seed", "search_seed"}
    /\ rng' = Generator(Seed(sessions[p].text), 0)
    /\ sessions' = [sessions EXCEPT ![p] =
            [@ EXCEPT !.pc = CASE @ = "add_seed" -> "add_randn"
                               [] @ = "del_seed" -> "del_randn"
                               [] OTHER -> "search_randn"]]
    /\ UNCHANGED <<disk, expected, calls, before, storevars, appvars,
                 readvars>>

\* generate_embeddings: return np.random.randn(64)
RandnStep(p) ==
    /\ sessions[p].pc \in {"add_randn", "del_randn", "search_randn"}
    /\ rng' = Generator(rng.seed, rng.pos + 1)
    /\ sessions' = [sessions EXCEPT ![p] =
            [@ EXCEPT !.vec = RandnVector(rng),
                      !.pc = CASE @ = "add_randn" -> "add_index"
                               [] @ = "del_randn" -> "del_item"
                               [] OTHER -> "search_scan"]]
    /\ UNCHANGED <<disk, expected, calls, before, storevars, appvars,
                 readvars>>

\* add: self.index.add(embeddings_array)
AddIndexStep(p) ==
    /\ sessions[p].pc = "add_index"
    /\ sessions' = [sessions EXCEPT ![p] =
            [@ EXCEPT !.index = IndexAdd(@, [d |-> Dim, x |-> sessions[p].vec]),
                      !.pc = "add_append"]]
    /\ UNCHANGED <<disk, rng, expected, calls, before, storevars, appvars,
                 readvars>>

\* add: idx = len(self.metadata); self.metadata.append({...})
AddAppendStep(p) ==
    /\ sessions[p].pc = "add_append"
    /\ LET s == sessions[p] IN
       sessions' = [sessions EXCEPT ![p] =
            [@ EXCEPT !.metadata = Append(@,
                            NewRecord(Len(s.metadata), s.topic, s.content,
                                      s.source, clock)),
                      !.pc = "save_index"]]
    /\ UNCHANGED <<disk, rng, expected, calls, before, storevars, appvars,
                 readvars>>

\* save: faiss.write_index(self.index, str(self.index_path))
SaveIndexStep(p) ==
    /\ sessions[p].pc = "save_index"
    /\ disk' = [disk EXCEPT ![sessions[p].data_dir].index_file =
                    write_index(sessions[p].index)]
    /\ sessions' = [sessions EXCEPT ![p] = [@ EXCEPT !.pc = "save_meta"]]
    /\ UNCHANGED <<rng, expected, calls, before, storevars, appvars,
                 readvars>>

\* save: json.dump(self.metadata, f); the call returns
SaveMetaStep(p) ==
    /\ sessions[p].pc = "save_meta"
    /\ disk' = [disk EXCEPT ![sessions[p].data_dir].metadata_file =
                    json_dump(sessions[p].metadata)]
    /\ sessions' = [sessions EXCEPT ![p] =
            [Returning(@) EXCEPT !.ret_ok = TRUE]]
    /\ before' = [before EXCEPT ![p] = NotRunning]
    /\ UNCHANGED <<rng, expected, calls, storevars, appvars, readvars>>

\* delete_by_topic(topic) is called: keep_items, the early return, the
\* fresh index and list
BeginDelete(p, topic) ==
    /\ sessions[p].handle = "live"
    /\ sessions[p].pc = "idle"
    /\ calls < MaxCalls
    /\ calls' = calls + 1
    /\ LET s == sessions[p]
           keep == keep_items(s.metadata, topic)
       IN
       IF Len(keep) = Len(s.metadata)
       THEN /\ sessions' = [sessions EXCEPT ![p] =
                    [@ EXCEPT !.ret_ok = FALSE]]
            /\ UNCHANGED <<expected, before>>
       ELSE /\ sessions' = [sessions EXCEPT ![p] =
                    [@ EXCEPT !.topic = topic, !.keep = keep, !.i = 1,
                              !.new_xb = <<>>, !.new_metadata = <<>>,
                              !.text = IF Len(keep) > 0
                                       THEN keep[1].content ELSE "",
                              !.pc = IF Len(keep) > 0 THEN "del_seed"
                                     ELSE "del_assign"]]
            /\ expected' = [expected EXCEPT ![p] =
                    ExpectedAfter(@, Rebuild(keep_items(@.metadata, topic)))]
            /\ before' = [before EXCEPT ![p] =
                    [running |-> TRUE, index |-> s.index,
                     metadata |-> s.metadata]]
    /\ UNCHANGED <<disk, rng, storevars, appvars, readvars>>

\* a rebuild in place: the loop adds to the index of the handle as well
DelItemStep_InPlace(p) ==
    /\ sessions[p].pc = "del_item"
    /\ LET s == sessions[p]
           more == s.i < Len(s.keep)
       IN
       sessions' = [sessions EXCEPT ![p] =
            [@ EXCEPT !.index = [d |-> Dim, xb |-> Append(s.new_xb, s.vec)],
                      !.new_xb = Append(@, s.vec),
                      !.new_metadata =
                            Append(@, [s.keep[s.i] EXCEPT !.id = s.i - 1]),
                      !.i = s.i + 1,
                      !.text = IF more THEN s.keep[s.i + 1].content ELSE "",
                      !.pc = IF more THEN "del_seed" ELSE "del_assign"]]
    /\ UNCHANGED <<disk, rng, expected, calls, before, storevars, appvars,
                 readvars>>

\* delete_by_topic, one round of the loop after the embedding: new_index.add,
\* the renumbered copy, the next item
DelItemStep(p) ==
    /\ sessions[p].pc = "del_item"
    /\ LET s == sessions[p]
           more == s.i < Len(s.keep)
       IN
       sessions' = [sessions EXCEPT ![p] =
            [@ EXCEPT !.new_xb = Append(@, s.vec),
                      !.new_metadata =
                            Append(@, [s.keep[s.i] EXCEPT !.id = s.i - 1]),
                      !.i = s.i + 1,
                      !.text = IF more THEN s.keep[s.i + 1].content ELSE "",
                      !.pc = IF more THEN "del_seed" ELSE "del_assign"]]
    /\ UNCHANGED <<disk, rng, expected, calls, before, storevars, appvars,
                 readvars>>

\* delete_by_topic: self.index = new_index
DelAssignIndexStep(p) ==
    /\ sessions[p].pc = "del_assign"
    /\ sessions' = [sessions EXCEPT ![p] =
            [@ EXCEPT !.index = [d |-> Dim, xb |-> sessions[p].new_xb],
                      !.pc = "del_assign_meta"]]
    /\ UNCHANGED <<disk, rng, expected, calls, before, storevars, appvars,
                 readvars>>

\* delete_by_topic: self.metadata = new_metadata
DelAssignMetaStep(p) ==
    /\ sessions[p].pc = "del_assign_meta"
    /\ sessions' = [sessions EXCEPT ![p] =
            [@ EXCEPT !.metadata = sessions[p].new_metadata,
                      !.pc = "save_index"]]
    /\ UNCHANGED <<disk, rng, expected, calls, before, storevars, appvars,
                 readvars>>

\* search(query, top_k) is called: the early return on an empty store,
\* else generate_embeddings(query) comes first
BeginSearch(p, query) ==
    /\ sessions[p].handle = "live"
    /\ sessions[p].pc = "idle"
    /\ calls < MaxCalls
    /\ calls' = calls + 1
    /\ sessions' = [sessions EXCEPT ![p] =
            IF Len(@.metadata) = 0 THEN @
            ELSE [@ EXCEPT !.pc = "search_seed", !.text = query]]
    /\ UNCHANGED <<disk, rng, expected, before, storevars, appvars,
                 readvars>>

\* search: self.index.search and the result list; the call returns
SearchScanStep(p) ==
    /\ sessions[p].pc = "search_scan"
    /\ sessions' = [sessions EXCEPT ![p] = Returning(@)]
    /\ UNCHANGED <<disk, rng, expected, calls, before, storevars, appvars,
                 readvars>>

\* get_by_topic(topic) and get_all_topics(): they read self.metadata
ReadTopics(p, topic) ==
    /\ sessions[p].handle = "live"
    /\ sessions[p].pc = "idle"
    /\ calls < MaxCalls
    /\ calls' = calls + 1
    /\ UNCHANGED <<sessions, disk, rng, expected, before, storevars, appvars,
                 readvars>>

NextP ==
    \E p \in Profiles :
        \/ OpenP(p)
        \/ \E entry \in ProfileEntries, source \in Sources :
                BeginAdd(p, entry[1], entry[2], source)
        \/ SeedStep(p)
        \/ RandnStep(p)
        \/ AddIndexStep(p)
        \/ AddAppendStep(p)
        \/ SaveIndexStep(p)
        \/ SaveMetaStep(p)
        \/ \E topic \in Topics : BeginDelete(p, topic)
        \/ DelItemStep(p)
        \/ DelAssignIndexStep(p)
        \/ DelAssignMetaStep(p)
        \/ \E query \in ProfileQueries : BeginSearch(p, query)
        \/ SearchScanStep(p)
        \/ \E topic \in Topics : ReadTopics(p, topic)

SpecP == Init /\ [][NextP]_vars

\* ------------------------------------------------ the application, app.py
\* VectorDB(profile): the handle loaded from the files of the profile
OpenDb(profile, dsk) ==
    LET st == LoadFrom(dsk[DataDir(profile)].index_file,
                       dsk[DataDir(profile)].metadata_file)
    IN  [profile |-> profile, index |-> st.index, metadata |-> st.metadata]

\* user_profiles = ["default"] + the other directories under data/
UserProfiles(ds) == {"default"} \cup ds

\* st.sidebar.selectbox: the value the widget had; when the list of options
\* differs from the one it was drawn with, the widget may come back as a
\* new one with the first option, "default"
Selectbox(value, drawn, options) ==
    IF drawn = options THEN {value} ELSE {value, "default"}

\* a switch that leaves the handle of the previous profile in the session
SwitchProfile_KeepDb(a, selected, dsk) ==
    [a EXCEPT !.user_profile = selected, !.click = NoClick, !.pc = "run"]

\* lines 126-130: the selection differs from the active profile
SwitchProfile(a, selected, dsk) ==
    [a EXCEPT !.user_profile = selected, !.db = OpenDb(selected, dsk),
              !.click = NoClick, !.pc = "run"]

\* lines 121-124: Create Profile with a name that is not listed
CreateProfile(a, new_profile) ==
    [a EXCEPT !.user_profile = new_profile, !.created = new_profile,
              !.click = NoClick, !.pc = "run"]

\* the entries of a profile that a delete of the topic through a handle
\* holding meta takes away
Remaining(entries, topic) == {e \in entries : e[1] # topic}

\* the page body with the button that was clicked: the store operation on
\* st.session_state.db
Body(s, a, ds) ==
    LET db == a.db
        dir == DataDir(db.profile)
        done == [a EXCEPT !.click = NoClick, !.pc = "idle"]
        issue == [issued |-> TRUE, profile_arg |-> a.user_profile,
                  db_profile |-> db.profile]
    IN
    /\ dirs' = ds
    /\ CASE a.click.op = "add" ->
              LET st == AddMem(db.index, db.metadata, a.click.a, a.click.b,
                               "manual", clock, None)
                  files == save(st.index, st.metadata, disk[dir].index_file,
                                disk[dir].metadata_file, "none")
              IN  /\ app' = [app EXCEPT ![s] =
                        [done EXCEPT !.db.index = st.index,
                                     !.db.metadata = st.metadata,
                                     !.issued = issue]]
                  /\ disk' = [disk EXCEPT ![dir] = files]
                  /\ committed' = [committed EXCEPT ![db.profile] =
                        @ \cup {<<a.click.a, a.click.b>>}]
         [] a.click.op = "delete" ->
              LET keep == keep_items(db.metadata, a.click.a) IN
              IF Len(keep) = Len(db.metadata)
              THEN /\ app' = [app EXCEPT ![s] =
                        [done EXCEPT !.issued = issue, !.pc = "run"]]
                   /\ UNCHANGED <<disk, committed>>
              ELSE LET st == Rebuild(keep)
                       files == save(st.index, st.metadata,
                                     disk[dir].index_file,
                                     disk[dir].metadata_file, "none")
                   IN  /\ app' = [app EXCEPT ![s] =
                            [done EXCEPT !.db.index = st.index,
                                         !.db.metadata = st.metadata,
                                         !.issued = issue, !.pc = "run"]]
                       /\ disk' = [disk EXCEPT ![dir] = files]
                       /\ committed' = [committed EXCEPT ![db.profile] =
                            Remaining(@, a.click.a)]
         [] a.click.op \in {"search", "answer"} ->
              /\ app' = [app EXCEPT ![s] = [done EXCEPT !.issued = issue]]
              /\ UNCHANGED <<disk, committed>>
         [] OTHER ->
              /\ app' = [app EXCEPT ![s] = done]
              /\ UNCHANGED <<disk, committed>>

\* one run of app.py from the top in session s
Run(s) ==
    /\ app[s].pc = "run"
    /\ LET a0 == app[s]
           a1 == IF a0.started THEN a0
                 ELSE [a0 EXCEPT !.started = TRUE,
                                 !.db = OpenDb("default", disk),
                                 !.user_profile = "default"]
           dirs1 == IF a0.started THEN dirs ELSE dirs \cup {"default"}
           user_profiles == UserProfiles(dirs1)
       IN
       \E selected \in Selectbox(a1.selected_profile, a1.options,
                                 user_profiles) :
         LET a2 == [a1 EXCEPT !.selected_profile = selected,
                              !.options = user_profiles]
         IN
         IF a2.click.op = "create" /\ a2.click.a \notin user_profiles
         THEN /\ app' = [app EXCEPT ![s] = CreateProfile(a2, a2.click.a)]
              /\ dirs' = dirs1 \cup {a2.click.a}
              /\ UNCHANGED <<disk, committed>>
         ELSE IF selected # a2.user_profile
         THEN /\ app' = [app EXCEPT ![s] = SwitchProfile(a2, selected, disk)]
              /\ dirs' = dirs1 \cup {selected}
              /\ UNCHANGED <<disk, committed>>
         ELSE Body(s, a2, dirs1)
    /\ UNCHANGED <<storevars, sessions, rng, expected, calls, before,
                   readvars>>

\* the browser opens the page
Visit(s) ==
    /\ ~app[s].started
    /\ app[s].pc = "idle"
    /\ app' = [app EXCEPT ![s].pc = "run"]
    /\ UNCHANGED <<storevars, profvars, dirs, committed, readvars>>

\* the user picks a profile in the select box
UserSelect(s, profile) ==
    /\ app[s].started
    /\ app[s].pc = "idle"
    /\ profile \in app[s].options
    /\ profile # app[s].selected_profile
    /\ app' = [app EXCEPT ![s].selected_profile = profile,
                          ![s].created = "", ![s].pc = "run"]
    /\ UNCHANGED <<storevars, profvars, dirs, committed, readvars>>

\* the user types a name and clicks Create Profile
UserCreate(s, new_profile) ==
    /\ app[s].started
    /\ app[s].pc = "idle"
    /\ app' = [app EXCEPT ![s].click = [NoClick EXCEPT !.op = "create",
                                                       !.a = new_profile],
                          ![s].created = "", ![s].pc = "run"]
    /\ UNCHANGED <<storevars, profvars, dirs, committed, readvars>>

\* the user clicks a button of the page that issues a store operation
UserClick(s, op, a, b) ==
    /\ app[s].started
    /\ app[s].pc = "idle"
    /\ calls < MaxClicks
    /\ calls' = calls + 1
    /\ app' = [app EXCEPT ![s].click = [op |-> op, a |-> a, b |-> b],
                          ![s].created = "", ![s].pc = "run"]
    /\ UNCHANGED <<storevars, sessions, disk, rng, expected, before, dirs,
                   committed, readvars>>

NextA ==
    \E s \in Sessions :
        \/ Visit(s)
        \/ Run(s)
        \/ \E profile \in Profiles : UserSelect(s, profile)
        \/ \E new_profile \in Profiles : UserCreate(s, new_profile)
        \/ \E entry \in ProfileEntries : UserClick(s, "add", entry[1], entry[2])
        \/ \E topic \in Topics : UserClick(s, "delete", topic, "")
        \/ \E query \in ProfileQueries : UserClick(s, "search", query, "")
        \/ \E query \in ProfileQueries : UserClick(s, "answer", query, "")

SpecA == Init /\ [][NextA]_vars

\* ----------------------------------------- a caller that keeps what it read
\* An object of a returned list is a dict: rec is its content, ref the
\* position in self.metadata of the stored dict it is, 0 when it is a dict
\* of its own.

\* search: result = self.metadata[idx].copy(); result["score"] = ...
search_objects(ix, meta, query, top_k) ==
    LET r == search(ix, meta, query, top_k) IN
    [j \in 1..Len(r) |-> [rec |-> r[j], ref |-> 0]]

\* get_by_topic: [item for item in self.metadata if item["topic"] == topic]
get_by_topic_objects(meta, topic) ==
    LET at == SelectSeq([i \in 1..Len(meta) |-> i],
                        LAMBDA i : meta[i].topic = topic)
    IN  [j \in 1..Len(at) |-> [rec |-> meta[at[j]], ref |-> at[j]]]

\* the stored dicts have been replaced: the caller's objects are stored no
\* longer
Detached(items) == [j \in 1..Len(items) |-> [items[j] EXCEPT !.ref = 0]]

\* create_or_load_vector_db in a new session
LoadR ==
    /\ handle = "none"
    /\ LET st == LoadFrom(index_file, metadata_file) IN
        /\ index' = st.index
        /\ metadata' = st.metadata
    /\ handle' = "live"
    /\ result' = [step |-> "init", items |-> Detached(result.items)]
    /\ UNCHANGED <<index_file, metadata_file, last, faults, clock, profvars,
                   appvars>>

\* add(topic, content, source): the stored dicts stay where they are
AddR(topic, content, source) ==
    /\ handle = "live"
    /\ Len(metadata) < MaxRecords
    /\ LET st == AddMem(index, metadata, topic, content, source, clock, None)
           files == save(st.index, st.metadata, index_file, metadata_file,
                         "none")
       IN  /\ index' = st.index
           /\ metadata' = st.metadata
           /\ index_file' = files.index_file
           /\ metadata_file' = files.metadata_file
    /\ clock' = "t2"
    /\ result' = [result EXCEPT !.step = "add"]
    /\ UNCHANGED <<handle, last, faults, profvars, appvars>>

\* delete_by_topic(topic): the rebuild stores copies (item.copy())
DeleteR(topic) ==
    /\ handle = "live"
    /\ LET keep == keep_items(metadata, topic) IN
       IF Len(keep) = Len(metadata)
       THEN /\ result' = [result EXCEPT !.step = "delete"]
            /\ UNCHANGED <<index, metadata, index_file, metadata_file>>
       ELSE LET st == Rebuild(keep)
                files == save(st.index, st.metadata, index_file,
                              metadata_file, "none")
            IN  /\ index' = st.index
                /\ metadata' = st.metadata
                /\ index_file' = files.index_file
                /\ metadata_file' = files.metadata_file
                /\ result' = [step |-> "delete",
                              items |-> Detached(result.items)]
    /\ UNCHANGED <<handle, last, faults, clock, profvars, appvars>>

\* results = db.search(query, top_k)
SearchR(query, top_k) ==
    /\ handle = "live"
    /\ ~SearchRaises(metadata, top_k)
    /\ result' = [step |-> "read",
                  items |-> search_objects(index, metadata, query, top_k)]
    /\ UNCHANGED <<storevars, profvars, appvars>>

\* results = db.get_by_topic(topic)
GetByTopicR(topic) ==
    /\ handle = "live"
    /\ result' = [step |-> "read",
                  items |-> get_by_topic_objects(metadata, topic)]
    /\ UNCHANGED <<storevars, profvars, appvars>>

\* topics = db.get_all_topics(): a new list of strings, no dict of the store
GetAllTopicsR ==
    /\ handle = "live"
    /\ result' = [step |-> "read", items |-> <<>>]
    /\ UNCHANGED <<storevars, profvars, appvars>>

\* the caller writes to an object of the list: results[j]["source"] = ...
ModifyR(j) ==
    /\ j \in 1..Len(result.items)
    /\ result.items[j].rec.source # "edited"
    /\ result' = [step |-> "modify",
                  items |-> [result.items EXCEPT ![j].rec.source = "edited"]]
    /\ metadata' = IF result.items[j].ref > 0
                   THEN [metadata EXCEPT
                            ![result.items[j].ref].source = "edited"]
                   ELSE metadata
    /\ UNCHANGED <<handle, index, index_file, metadata_file, last, faults,
                   clock, profvars, appvars>>

NextR ==
    \/ LoadR
    \/ \E entry \in ProfileEntries, source \in Sources :
            AddR(entry[1], entry[2], source)
    \/ \E topic \in Topics : DeleteR(topic)
    \/ \E query \in ProfileQueries, top_k \in TopKs : SearchR(query, top_k)
    \/ \E topic \in Topics : GetByTopicR(topic)
    \/ GetAllTopicsR
    \/ \E j \in 1..MaxRecords : ModifyR(j)

SpecR == Init /\ [][NextR]_vars

\* ------------------------------------------------------------ well-formed
TypeOK ==
    /\ handle \in {"none", "live"}
    /\ index.d = Dim
    /\ Len(metadata) <= MaxRecords
    /\ ntotal(index) <= MaxRecords + 1
    /\ clock \in Dates
    /\ \A i \in 1..Len(metadata) :
        /\ metadata[i].topic \in Topics
        /\ metadata[i].content \in Contents
        /\ metadata[i].source \in Sources
    /\ index_file.exists \in BOOLEAN
    /\ metadata_file.exists \in BOOLEAN

\* ----------------------------------------------------------------------
\* helpers of the properties
HasTopic(meta, topic) == \E i \in 1..Len(meta) : meta[i].topic = topic

\* positions of the records of meta whose topic differs from topic
OtherPositions(meta, topic) == {i \in 1..Len(meta) : meta[i].topic # topic}

\* the position in meta of the j-th record whose topic differs from topic
NthOther(meta, topic, j) ==
    CHOOSE i \in OtherPositions(meta, topic) :
        Cardinality({k \in OtherPositions(meta, topic) : k <= i}) = j

Returned(op) == last.op = op /\ last.outcome = "returned"
ReturnedNext(op) == last'.op = op /\ last'.outcome = "returned"

\* the state a call is about to persist, from the state before the call
StateToSave ==
    IF last'.op = "add"
    THEN AddMem(index, metadata, last'.topic, last'.content, last'.source,
                last'.date, last'.embeddings)
    ELSE Rebuild(keep_items(metadata, last'.topic))

\* ----------------------------------------------------------------------
\* C1: whenever a store handle exists (after load, add or delete_by_topic),
\* the number of metadata records equals the number of vectors of the index.
C1_CountsAgree == handle = "live" => Len(metadata) = ntotal(index)

\* C2: every record's id is its position: metadata[i].id == i for all i.
C2_IdsArePositions == \A i \in 1..Len(metadata) : metadata[i].id = i - 1

\* two survivors of a delete have been renumbered
C2_Witness ==
    /\ Returned("delete") /\ last.ret_ok
    /\ Len(metadata) = 2

\* C3: an add that returns on a store of n records returns n, appends the
\* record {id: n, topic, content, source, date} and one vector at index
\* position n, and leaves the earlier records and vectors as they were.
C3_AddAppends ==
    [][ReturnedNext("add") =>
        LET n == Len(metadata) IN
        /\ last'.ret_id = n
        /\ metadata' = Append(metadata,
                NewRecord(n, last'.topic, last'.content, last'.source,
                          last'.date))
        /\ ntotal(index') = n + 1
        /\ index'.xb[n + 1] = AddVector(last'.content, last'.embeddings).x
        /\ SubSeq(index'.xb, 1, n) = index.xb]_vars

\* C4: a delete_by_topic(T) that returns on a store with a record of topic T
\* returns true and leaves exactly the records of other topics, in their
\* original order, with ids 0..m-1, and an index of m vectors.
C4_DeleteRemovesTopic ==
    [][(ReturnedNext("delete") /\ HasTopic(metadata, last'.topic)) =>
        LET T == last'.topic
            m == Cardinality(OtherPositions(metadata, T))
        IN
        /\ last'.ret_ok
        /\ Len(metadata') = m
        /\ ntotal(index') = m
        /\ \A j \in 1..m :
            metadata'[j] = [metadata[NthOther(metadata, T, j)]
                                EXCEPT !.id = j - 1]]_vars

\* a delete left two different survivors
C4_Witness ==
    /\ Returned("delete") /\ last.ret_ok
    /\ Len(metadata) = 2
    /\ metadata[1].content # metadata[2].content

\* C5: delete_by_topic(T) on a store without a record of topic T returns
\* false, raises nothing and leaves memory and both files unchanged.
C5_DeleteAbsentTopic ==
    [][(last'.op = "delete" /\ ~HasTopic(metadata, last'.topic)) =>
        /\ last'.outcome = "returned"
        /\ ~last'.ret_ok
        /\ UNCHANGED <<handle, index, metadata, index_file, metadata_file>>]_vars

\* delete of an absent topic returned false on a non-empty store whose
\* memory is ahead of the files
C5_Witness ==
    /\ Returned("delete") /\ ~last.ret_ok
    /\ Len(metadata) >= 1
    /\ index_file # write_index(index)
    /\ metadata_file # json_dump(metadata)

\* C6: a load that finds both snapshots with different counts yields an
\* empty store handle.
C6_MismatchLoadsEmpty ==
    (/\ last.op = "init"
     /\ index_file.exists /\ metadata_file.exists
     /\ index_file.ntotal # Len(metadata_file.items))
    => (Len(metadata) = 0 /\ ntotal(index) = 0)

\* C7: when a write of save fails during add or delete_by_topic, the call
\* raises and index and metadata in memory are what they were before the
\* call.
C7_FailedWriteKeepsMemory ==
    [][last'.fault \in {"fail_index", "fail_meta"} =>
        /\ last'.outcome = "raised"
        /\ index' = index
        /\ metadata' = metadata]_vars

\* C8: right after an add that returned or a delete_by_topic that returned
\* true, a fresh handle of the profile holds the same records and vectors
\* (hence the same topics).
C8_RoundTrip ==
    ((Returned("add") \/ (Returned("delete") /\ last.ret_ok))
        /\ handle = "live")
    => LET fresh == LoadFrom(index_file, metadata_file) IN
        /\ fresh.metadata = metadata
        /\ fresh.index = index
        /\ {fresh.metadata[i].topic : i \in 1..Len(fresh.metadata)}
            = {metadata[i].topic : i \in 1..Len(metadata)}

\* an add returned on a store that then holds two records
C8_Witness == Returned("add") /\ Len(metadata) >= 2

C10_VectorsMatchContents ==
    handle = "live" =>
        \A i \in 1..Len(metadata) :
            /\ i <= ntotal(index)
            /\ index.xb[i] = generate_embeddings(metadata[i].content).x

\* ----------------------------------------------------------------------
\* helpers of the properties about the read operations
Unscored(r) ==
    [id |-> r.id, topic |-> r.topic, content |-> r.content,
     source |-> r.source, date |-> r.date]

FracEq(a, b) == a.num * b.den = b.num * a.den
FracGeq(a, b) == a.num * b.den >= b.num * a.den

\* distance from the query to the vector at the position of result r
ResultDistance(query, r) ==
    Distance(generate_embeddings(query).x, index.xb[r.id + 1])

\* no read of the handle shows a record of the topic
ShownTopics(ix, meta) ==
    UNION { LET r == search(ix, meta, qk[1], qk[2])
            IN  {r[j].topic : j \in DOMAIN r} : qk \in Queries \X TopKs }
    \cup UNION { LET r == get_by_topic(meta, t)
                 IN  {r[j].topic : j \in DOMAIN r} : t \in QueryTopics }
    \cup LET r == get_all_topics(meta) IN {r[j] : j \in DOMAIN r}

TopicAbsent(ix, meta, topic) == topic \notin ShownTopics(ix, meta)

\* C13: on a store of n >= 1 records and n vectors, search(query, top_k)
\* with top_k >= 1 returns min(top_k, n) results, each a stored record (by
\* position) with a score, no record twice.
C13_SearchCount ==
    (handle = "live" /\ Len(metadata) >= 1 /\ ntotal(index) = Len(metadata))
    => \A q \in Queries, k \in TopKs :
        LET r == search(index, metadata, q, k) IN
        /\ Len(r) = Min(k, Len(metadata))
        /\ \A j \in 1..Len(r) :
            /\ r[j].id + 1 \in 1..Len(metadata)
            /\ Unscored(r[j]) = metadata[r[j].id + 1]
        /\ \A i, j \in 1..Len(r) : i # j => r[i].id # r[j].id

\* top_k below and above the size of a store of three records
C13_Witness ==
    /\ handle = "live" /\ Len(metadata) = 3 /\ ntotal(index) = 3
    /\ Len(search(index, metadata, "q", 2)) = 2
    /\ Len(search(index, metadata, "q", 5)) = 3

\* C14: the results of search are in order of non-decreasing distance and
\* non-increasing score.
C14_SearchOrdered ==
    handle = "live" =>
        \A q \in Queries, k \in TopKs :
            LET r == search(index, metadata, q, k) IN
            \A j \in 1..(Len(r) - 1) :
                /\ ResultDistance(q, r[j]) <= ResultDistance(q, r[j + 1])
                /\ FracGeq(r[j].score, r[j + 1].score)

\* two results at different distances, the nearer with the higher score
C14_Witness ==
    /\ handle = "live"
    /\ LET r == search(index, metadata, "q", 2) IN
        /\ Len(r) = 2
        /\ ResultDistance("q", r[1]) < ResultDistance("q", r[2])
        /\ ~FracGeq(r[2].score, r[1].score)

\* C15: each result's score is 1 - d/dmax with dmax the largest distance
\* among the returned results, 0 when dmax is 0, and lies in [0, 1].
C15_ScoreFormula ==
    handle = "live" =>
        \A q \in Queries, k \in TopKs :
            LET r == search(index, metadata, q, k)
                d == [j \in 1..Len(r) |-> ResultDistance(q, r[j])]
                dmax == SeqMax(d)
            IN  \A j \in 1..Len(r) :
                /\ FracEq(r[j].score,
                          IF dmax > 0 THEN Frac(dmax - d[j], dmax)
                          ELSE Frac(0, 1))
                /\ r[j].score.num >= 0
                /\ r[j].score.num <= r[j].score.den

\* C16: on a store without records search returns the empty list for every
\* query and top_k, get_all_topics and get_by_topic return nothing, and
\* none of them raises.
C16_EmptyStoreReads ==
    (handle = "live" /\ Len(metadata) = 0) =>
        /\ \A q \in Queries, k \in TopKs \cup {0} :
            /\ ~SearchRaises(metadata, k)
            /\ search(index, metadata, q, k) = <<>>
            /\ search_vector_db(index, metadata, q, k, FALSE)
                = [raised |-> FALSE, exact |-> <<>>, scored |-> <<>>]
        /\ get_all_topics(metadata) = <<>>
        /\ \A t \in QueryTopics : get_by_topic(metadata, t) = <<>>

\* a store emptied by delete_by_topic
C16_Witness ==
    /\ Returned("delete") /\ last.ret_ok
    /\ handle = "live" /\ Len(metadata) = 0

\* C17: get_by_topic(T), and search_vector_db with exact_match, return
\* exactly the records whose topic is the string T, in stored order,
\* whatever top_k is; nothing when no topic equals T.
C17_ExactTopic ==
    handle = "live" =>
        \A t \in QueryTopics :
            LET r == get_by_topic(metadata, t)
                at == {i \in 1..Len(metadata) : metadata[i].topic = t}
            IN  /\ Len(r) = Cardinality(at)
                /\ \A j \in 1..Len(r) :
                    /\ r[j].id + 1 \in at
                    /\ r[j] = metadata[r[j].id + 1]
                /\ \A i, j \in 1..Len(r) : i < j => r[i].id < r[j].id
                /\ \A k \in TopKs :
                    search_vector_db(index, metadata, t, k, TRUE)
                        = [raised |-> FALSE, exact |-> r, scored |-> <<>>]

\* two records of topic "A" around one of topic "B": "A" gives the two,
\* "a" and "AB" give nothing
C17_Witness ==
    /\ handle = "live" /\ Len(metadata) = 3
    /\ metadata[1].topic = "A" /\ metadata[2].topic = "B"
    /\ metadata[3].topic = "A"
    /\ Len(get_by_topic(metadata, "A")) = 2
    /\ get_by_topic(metadata, "a") = <<>>
    /\ get_by_topic(metadata, "AB") = <<>>

\* C18: get_all_topics holds no topic twice, and holds a topic exactly when
\* a stored record has it.
C18_TopicsDistinct ==
    handle = "live" =>
        LET ts == get_all_topics(metadata) IN
        /\ \A i, j \in 1..Len(ts) : i # j => ts[i] # ts[j]
        /\ {ts[i] : i \in 1..Len(ts)}
            = {metadata[i].topic : i \in 1..Len(metadata)}

\* three records over two topics
C18_Witness ==
    /\ handle = "live" /\ Len(metadata) = 3
    /\ Len(get_all_topics(metadata)) = 2

\* the topics of the records the handle holds
StoredTopics(meta) == {meta[i].topic : i \in DOMAIN meta}

\* C19: once delete_by_topic(T) has returned true, no read of the handle
\* shows topic T until an add with topic T, and search returns the
\* survivors under their new ids. The reads of a handle show exactly the
\* topics of its records; right after the delete no read shows T; a topic
\* the handle does not hold comes back only by an add of that topic.
C19_DeletedTopicGone ==
    /\ [](handle = "live" =>
            ShownTopics(index, metadata) = StoredTopics(metadata))
    /\ []((Returned("delete") /\ last.ret_ok) =>
            /\ TopicAbsent(index, metadata, last.topic)
            /\ \A q \in Queries, k \in TopKs :
                LET r == search(index, metadata, q, k) IN
                \A j \in 1..Len(r) :
                    Unscored(r[j]) = metadata[r[j].id + 1])
    /\ [][(handle = "live" /\ handle' = "live") =>
            \A t \in Topics :
                (/\ t \notin StoredTopics(metadata)
                 /\ ~(last'.op = "add" /\ last'.topic = t))
                => t \notin StoredTopics(metadata')]_vars

\* after a delete of topic "A" the former record 1 is found under id 0
C19_Witness ==
    /\ Returned("delete") /\ last.ret_ok /\ last.topic = "A"
    /\ handle = "live" /\ Len(metadata) >= 1
    /\ Len(search(index, metadata, "q", 1)) = 1
    /\ search(index, metadata, "q", 1)[1].id = 0
    /\ search(index, metadata, "q", 1)[1].topic = "B"

\* ----------------------------------------------------------------------
\* C21: the index of a handle has dimension 64 at all times, and an add
\* whose supplied embeddings have another dimension raises and leaves index,
\* metadata and both files unchanged.
C21_DimensionFixed ==
    /\ [](handle = "live" => index.d = Dim)
    /\ [][(/\ last'.op = "add"
           /\ last'.embeddings.given
           /\ last'.embeddings.d # Dim) =>
            /\ last'.outcome = "raised"
            /\ UNCHANGED <<handle, index, metadata, index_file,
                           metadata_file>>]_vars

\* an add with a vector of another dimension raised on a store with records
C21_Witness ==
    /\ last.op = "add" /\ last.outcome = "raised"
    /\ last.embeddings.given /\ last.embeddings.d # Dim
    /\ handle = "live" /\ Len(metadata) >= 1

\* C22: after delete_by_topic(T) the handle holds the records of the other
\* topics in their order, each with the topic, content, source and date it
\* had before the call.
C22_SurvivorsKeepFields ==
    [][(last'.op = "delete" /\ handle' = "live") =>
        LET T == last'.topic
            m == Cardinality(OtherPositions(metadata, T))
        IN
        /\ Len(metadata') = m
        /\ \A j \in 1..m :
            LET old == metadata[NthOther(metadata, T, j)] IN
            /\ metadata'[j].topic = old.topic
            /\ metadata'[j].content = old.content
            /\ metadata'[j].source = old.source
            /\ metadata'[j].date = old.date]_vars

\* a record added at the first reading of the clock survived a delete that
\* ran at a later reading, under a new id
C22_Witness ==
    /\ Returned("delete") /\ last.ret_ok
    /\ clock = "t2"
    /\ \E j \in 1..Len(metadata) :
        metadata[j].date = "t1" /\ metadata[j].topic # last.topic

\* C23: a handle constructed while a snapshot file is missing starts with 0
\* records and 0 vectors, and after the first add that returns on it both
\* files exist and hold exactly that one record and one vector.
C23_FreshStoreFirstAdd ==
    [][/\ (handle = "none" /\ handle' = "live"
           /\ ~(index_file.exists /\ metadata_file.exists))
            => (Len(metadata') = 0 /\ ntotal(index') = 0)
       /\ (handle = "live" /\ ~(index_file.exists /\ metadata_file.exists)
           /\ ReturnedNext("add"))
            => /\ index_file' = write_index(IndexAdd(EmptyIndex,
                        AddVector(last'.content, last'.embeddings)))
               /\ metadata_file' = json_dump(<<NewRecord(0, last'.topic,
                        last'.content, last'.source, last'.date)>>)]_vars

\* C24: answer_question searches with top_k = 3; on a store without records
\* it gives the fixed answer with empty context, source and topic; on any
\* other store source and topic are those of the first search result and
\* the context is all returned contents, or the first alone when they have
\* more than 500 words together.
C24_AnswerFromFirstResult ==
    handle = "live" =>
        \A q \in Queries :
            LET a == answer_question(index, metadata, q)
                r == search(index, metadata, q, AnswerTopK)
                contents == [i \in 1..Len(r) |-> r[i].content]
            IN  IF Len(metadata) = 0
                THEN a = NotEnoughInformation
                ELSE /\ Len(r) >= 1
                     /\ a.source = r[1].source
                     /\ a.topic = r[1].topic
                     /\ a.context = IF SumWords(contents) > MaxContextWords
                                    THEN <<r[1].content>> ELSE contents

\* C28: when the largest distance among the returned results is positive,
\* the farthest returned result has score 0 and a result at distance 0 has
\* score 1; a single returned result has score 0, also at distance 0.
C28_RelativeScore ==
    handle = "live" =>
        \A q \in Queries, k \in TopKs :
            LET r == search(index, metadata, q, k)
                d == [j \in 1..Len(r) |-> ResultDistance(q, r[j])]
                dmax == SeqMax(d)
            IN  /\ dmax > 0 =>
                    \A j \in 1..Len(r) :
                        /\ d[j] = dmax => r[j].score.num = 0
                        /\ d[j] = 0 => r[j].score.num = r[j].score.den
                /\ Len(r) = 1 => r[1].score.num = 0

\* ------------------------------------------------- profiles side by side
\* the session of profile q and the files of its directory are the same
\* before and after the step
Untouched(q) ==
    /\ sessions'[q] = sessions[q]
    /\ disk'[DataDir(q)] = disk[DataDir(q)]

\* the session of profile p is between two calls
Idle(p) == sessions[p].handle = "live" /\ sessions[p].pc = "idle"

\* C11: a step of any operation through the handle of one profile leaves
\* the in-memory state and the snapshot files of every other profile
\* unchanged, and a handle works on the directory of its own profile.
C11_ProfileIsolation ==
    [][ /\ \E p \in Profiles : \A q \in Profiles \ {p} : Untouched(q)
        /\ \A p \in Profiles :
                sessions'[p].handle = "live"
                    => sessions'[p].data_dir = DataDir(p) ]_vars

\* both profiles have saved, each its own records, and are between calls
C11_Witness ==
    /\ \A p \in Profiles :
            /\ Idle(p)
            /\ Len(sessions[p].metadata) >= 1
            /\ disk[DataDir(p)].index_file # NoIndexFile
            /\ disk[DataDir(p)].metadata_file = json_dump(sessions[p].metadata)
    /\ disk[DataDir("default")] # disk[DataDir("work")]

\* C12: however the steps of the two profiles interleave, a profile that is
\* between calls has the in-memory state and the snapshot files its own
\* calls give when they run alone in their order.
C12_InterleavingIndependent ==
    \A p \in Profiles :
        Idle(p) =>
            /\ sessions[p].index = expected[p].index
            /\ sessions[p].metadata = expected[p].metadata
            /\ disk[DataDir(p)].index_file = expected[p].index_file
            /\ disk[DataDir(p)].metadata_file = expected[p].metadata_file

\* C20: the vector generate_embeddings returns is the vector of its text
\* argument, whatever other calls happen in between.
C20_EmbeddingDeterministic ==
    \A p \in Profiles :
        sessions[p].pc \in {"add_index", "del_item", "search_scan"}
            => sessions[p].vec = generate_embeddings(sessions[p].text).x

\* ----------------------------------------------------------------------
\* what a search or get_by_topic on an index and a list of records returns
ReaderView(st) ==
    [found |-> [qk \in Queries \X TopKs |->
                    search(st.index, st.metadata, qk[1], qk[2])],
     exact |-> [t \in QueryTopics |-> get_by_topic(st.metadata, t)]]

\* index and metadata of the handle of profile p now, when the running
\* delete was called, and as the running delete has built them aside
HandleState(p) ==
    [index |-> sessions[p].index, metadata |-> sessions[p].metadata]

PreState(p) == [index |-> before[p].index, metadata |-> before[p].metadata]

PostState(p) ==
    [index |-> [d |-> Dim, xb |-> sessions[p].new_xb],
     metadata |-> sessions[p].new_metadata]

\* C26 (as claimed): a search or get_by_topic at any step of a running
\* delete_by_topic returns what it returns on the state before the delete
\* or what it returns on the state after it.
C26_DeleteAtomicForReaders ==
    \A p \in Profiles :
        before[p].running =>
            \/ ReaderView(HandleState(p)) = ReaderView(PreState(p))
            \/ /\ sessions[p].pc \in {"del_assign_meta", "save_index",
                                      "save_meta"}
               /\ ReaderView(HandleState(p)) = ReaderView(PostState(p))

\* C26 (amended): the replacement is built aside, so until the first of the
\* two assignments the handle holds the state before the delete and after
\* the second it holds the state after it; between the two assignments it
\* holds the new index with the old metadata.
C26_BuiltAsideTwoAssignments ==
    \A p \in Profiles :
        before[p].running =>
            CASE sessions[p].pc \in {"del_seed", "del_randn", "del_item",
                                     "del_assign"} ->
                    HandleState(p) = PreState(p)
              [] sessions[p].pc = "del_assign_meta" ->
                    /\ sessions[p].index = PostState(p).index
                    /\ sessions[p].metadata = PreState(p).metadata
              [] OTHER -> HandleState(p) = PostState(p)

\* a delete with a survivor stands between its two assignments, and a
\* reader gets neither the results of before nor those of after
C26_Witness ==
    \E p \in Profiles :
        /\ before[p].running
        /\ sessions[p].pc = "del_assign_meta"
        /\ Len(sessions[p].new_metadata) >= 1
        /\ ReaderView(HandleState(p)) # ReaderView(PreState(p))
        /\ ReaderView(HandleState(p)) # ReaderView(PostState(p))

\* ----------------------------------------------------------------------
RecordFields == {"id", "topic", "content", "source", "date"}

\* C27: search, get_by_topic and get_all_topics leave metadata, index and
\* both files unchanged; no stored record has a score field; and a write to
\* an object returned by search or get_by_topic leaves the stored records
\* unchanged.
C27_ReadsHandOutCopies ==
    /\ [](\A i \in 1..Len(metadata) : DOMAIN metadata[i] = RecordFields)
    /\ [][result'.step = "read" =>
            UNCHANGED <<index, metadata, index_file, metadata_file>>]_vars
    /\ [][result'.step = "modify" =>
            UNCHANGED <<index, metadata>>]_vars

\* ----------------------------------------------------------------------
\* the records in the metadata snapshot of a profile
Persisted(profile) == json_load(disk[DataDir(profile)].metadata_file)

\* C25: with the operations of all sessions run one after another, the
\* metadata snapshot of a profile holds every entry that was added through
\* any handle of the profile and not deleted since.
C25_NoLostUpdate ==
    \A profile \in Profiles :
        \A e \in committed[profile] :
            \E i \in 1..Len(Persisted(profile)) :
                /\ Persisted(profile)[i].topic = e[1]
                /\ Persisted(profile)[i].content = e[2]

\* C29: whenever a session issues a store operation, and whenever its page
\* stands ready for one, the handle of the session is the handle of its
\* active profile: the profile argument of add_to_vector_db names the
\* profile that is written.
C29_HandleOfActiveProfile ==
    \A s \in Sessions :
        /\ app[s].issued.issued =>
                app[s].issued.db_profile = app[s].issued.profile_arg
        /\ (app[s].started /\ app[s].pc = "idle") =>
                /\ app[s].db.profile = app[s].user_profile
                /\ app[s].selected_profile = app[s].user_profile

\* a session that created a profile and then selected it has added a record
\* under it
C29_Witness ==
    \E s \in Sessions :
        /\ app[s].issued.issued
        /\ app[s].issued.profile_arg = "work"
        /\ Len(app[s].db.metadata) >= 1
        /\ Len(Persisted("work")) >= 1

\* C30: when the page has settled after a Create Profile with a new name,
\* the new profile is the active one and the handle of the session is the
\* handle of the new profile.
C30_CreatedProfileIsActive ==
    \A s \in Sessions :
        (app[s].pc = "idle" /\ app[s].created # "") =>
            /\ app[s].user_profile = app[s].created
            /\ app[s].db.profile = app[s].created

====
